---- MODULE Spec2Model ----
(***************************************************************************)
(* Model of playwright-web-scraper: the SQLite dedup store                 *)
(* (src/agent/storage.py), the selector resolver                           *)
(* (src/agent/auto_detect.py), the extraction pipeline                     *)
(* (src/agent/scraper.py, driven by src/app.py and src/main.py) and the    *)
(* batch refiner (src/agent/llm_refiner.py).                               *)
(***************************************************************************)
EXTENDS Integers, Sequences, FiniteSets, TLC

VARIABLES
    table,      \* committed rows of scraped_data, in insertion (rowid) order
    seq,        \* AUTOINCREMENT high-water mark of scraped_data (sqlite_sequence)
    clock,      \* CURRENT_TIMESTAMP, in whole seconds
    last,       \* the last call on the store: what it was given, counted and returned
    writers,    \* two processes in save on the same database file, each at an item
    lock,       \* the writer whose transaction holds the database's write lock, or 0
    work,       \* the lock holder's view of the database: the file plus its uncommitted inserts
    det,        \* an AutoDetector: the page it was built on and what detect returned
    registry,   \* the module-level dict SITE_TEMPLATES as it is at run time
    SELECTORS,  \* the class attribute WebScraper.SELECTORS as it is at run time
    scraper,    \* the WebScraper in use: how it was set up and its last extract_data call
    job,        \* a run of main(): where extract_data stands and what main holds and saved
    session,    \* a "with WebScraper(...)" block: the Playwright objects launched and closed
    scroll,     \* a call of scroll_to_bottom: its locals and the scrolls made
    refined     \* the last call of refine_data: what it was given and what it returned

storeVars == <<table, seq, clock, last>>
writerVars == <<writers, lock, work>>
detVars == <<det, registry>>
scraperVars == <<SELECTORS, scraper>>

runVars == <<job, session, scroll, refined>>

vars == <<storeVars, writerVars, detVars, scraperVars, runVars>>

----------------------------------------------------------------------------
(* Bounds of the model *)

MaxSeq == 4         \* save is not called when it could push the id counter past this
MaxClock == 1       \* the clock ticks at most this many times
MaxLimit == 2       \* largest integer limit handed to get_all
MaxContainers == 3  \* most containers a scraped page holds
MaxItemsArg == 3    \* largest integer max_items handed to extract_data
MaxStarts == 2      \* most calls of start() on one scraper
MaxScrolls == 3     \* largest max_scrolls handed to scroll_to_bottom
MaxHeight == 4      \* largest document.body.scrollHeight a page reports
MaxRefine == 2      \* longest list handed to refine_batch

\* Longest batch handed to save: one that can still be saved twice
MaxBatch == MaxSeq \div 2

----------------------------------------------------------------------------
(* Values *)

NULL == "NULL"                  \* Python None / SQL NULL
UNBINDABLE == "UNBINDABLE"      \* a value sqlite3 cannot bind (a list, a dict)

Columns == {"title", "author", "date", "link", "content"}

\* dict.get(key): None when the key is absent
Get(item, k) == IF k \in DOMAIN item THEN item[k] ELSE NULL

\* The records handed to save: two records with the same link and different
\* values, a record with another link, a record whose link is None, a record
\* without a link key, and a record whose title cannot be bound (its INSERT
\* raises an error that is not an IntegrityError).
Items ==
    { [title |-> "t1", link |-> "a"],
      [title |-> "t2", author |-> "au", date |-> "d", content |-> "c", link |-> "a"],
      [title |-> "t1", link |-> "b"],
      [title |-> "t1", link |-> NULL],
      [title |-> "t2", author |-> "au", date |-> "d", content |-> "c"],
      [title |-> UNBINDABLE, link |-> "b"] }

SeqsUpTo(S, n) == UNION { [1..k -> S] : k \in 0..n }

Batches == SeqsUpTo(Items, MaxBatch)

\* The batches saved where only the stored rows matter (get_all): one record,
\* with a link or without
ReadBatches == { <<it>> : it \in { [title |-> "t1", link |-> "a"],
                                   [title |-> "t1", link |-> NULL] } }

----------------------------------------------------------------------------
(* SQLiteStorage *)

\* cursor.execute raises an error other than IntegrityError
Unbindable(item) == \E k \in Columns : Get(item, k) = UNBINDABLE

\* Mutant: no UNIQUE constraint on link
UniqueViolationNone(rows, link) == FALSE

\* Mutant: the UNIQUE constraint treats two NULL links as equal
UniqueViolationNulls(rows, link) ==
    \E i \in 1..Len(rows) : rows[i].link = link

\* link TEXT UNIQUE: a non-NULL link collides with a stored row of that link
UniqueViolation(rows, link) ==
    link # NULL /\ \E i \in 1..Len(rows) : rows[i].link = link

NewRow(id, item, now) ==
    [id |-> id,
     title |-> Get(item, "title"), author |-> Get(item, "author"),
     date |-> Get(item, "date"), link |-> Get(item, "link"),
     content |-> Get(item, "content"), scraped_at |-> now]

\* Mutant: INSERT OR REPLACE - a colliding insert deletes the stored row and
\* inserts the new one
InsertOrReplace(db, item, now) ==
    IF Unbindable(item)
    THEN [db |-> db, outcome |-> "raise"]
    ELSE LET link == Get(item, "link")
             kept == SelectSeq(db.rows, LAMBDA r : link = NULL \/ r.link # link)
         IN  [db |-> [rows |-> Append(kept, NewRow(db.seq + 1, item, now)),
                      seq |-> db.seq + 1],
              outcome |-> IF Len(kept) = Len(db.rows) THEN "inserted" ELSE "ignored"]

\* One INSERT OR IGNORE on db = [rows, seq] at time now: the database after
\* it and the statement's outcome. An ignored insert leaves the rows alone
\* and still consumes an AUTOINCREMENT id.
InsertOrIgnore(db, item, now) ==
    IF Unbindable(item)
    THEN [db |-> db, outcome |-> "raise"]
    ELSE IF UniqueViolation(db.rows, Get(item, "link"))
    THEN [db |-> [rows |-> db.rows, seq |-> db.seq + 1], outcome |-> "ignored"]
    ELSE [db |-> [rows |-> Append(db.rows, NewRow(db.seq + 1, item, now)),
                  seq |-> db.seq + 1],
          outcome |-> "inserted"]

ZeroCount == [inserted |-> 0, duplicates |-> 0, errors |-> 0]

\* Mutant: every statement that does not raise counts as an insert
TallyNoRowcount(cnt, outcome) ==
    IF outcome = "raise"
    THEN [cnt EXCEPT !.errors = @ + 1]
    ELSE [cnt EXCEPT !.inserted = @ + 1]

\* Mutant: an insert that raises is not counted
TallyDropsErrors(cnt, outcome) ==
    CASE outcome = "inserted" -> [cnt EXCEPT !.inserted = @ + 1]
      [] outcome = "ignored"  -> [cnt EXCEPT !.duplicates = @ + 1]
      [] outcome = "raise"    -> cnt

\* The body of save's for loop after the execute: rowcount > 0 counts an
\* insert, rowcount = 0 a duplicate, an exception an error. INSERT OR IGNORE
\* turns the UNIQUE violation into rowcount = 0, so the IntegrityError
\* handler is never entered.
Tally(cnt, outcome) ==
    CASE outcome = "inserted" -> [cnt EXCEPT !.inserted = @ + 1]
      [] outcome = "ignored"  -> [cnt EXCEPT !.duplicates = @ + 1]
      [] outcome = "raise"    -> [cnt EXCEPT !.errors = @ + 1]

\* Mutant: an insert error ends the loop
ContinuesUnlessRaise(outcome) == outcome # "raise"

\* Whether the loop goes on to the next item after this outcome: every
\* exception is caught inside the loop body
Continues(outcome) == TRUE

\* save's for loop from item i on. The clock ticks once before item tickAt
\* (never, when tickAt = 0).
RECURSIVE SaveLoop(_, _, _, _, _, _)
SaveLoop(db, cnt, data, i, now, tickAt) ==
    IF i > Len(data)
    THEN [db |-> db, cnt |-> cnt, now |-> now]
    ELSE LET t == IF i = tickAt THEN now + 1 ELSE now
             r == InsertOrIgnore(db, data[i], t)
         IN  IF Continues(r.outcome)
             THEN SaveLoop(r.db, Tally(cnt, r.outcome), data, i + 1, t, tickAt)
             ELSE [db |-> r.db, cnt |-> Tally(cnt, r.outcome), now |-> t]

\* The record of a call: op, the batch given to save, whether save reached
\* its counters and what they ended at, what save returned (<<>> is None),
\* the limit given to get_all and the rows it returned, and the number count
\* returned.
NoCall ==
    [op |-> "init", data |-> <<>>, counted |-> FALSE, cnt |-> ZeroCount,
     ret |-> <<>>, limit |-> <<>>, rows |-> <<>>, total |-> 0]

\* Mutant: save returns its three counters
SaveReturnCounts(cnt) == <<cnt.inserted, cnt.duplicates, cnt.errors>>

\* What save hands back to its caller: nothing (None), modelled as <<>>
SaveReturn(cnt) == <<>>

\* SQLiteStorage.save(data)
Save(data, tickAt) ==
    /\ seq + Len(data) <= MaxSeq
    /\ UNCHANGED <<writerVars, detVars, scraperVars, runVars>>
    /\ tickAt > 0 => clock < MaxClock
    /\ IF data = <<>>
       THEN /\ last' = [NoCall EXCEPT !.op = "save"]
            /\ UNCHANGED <<table, seq, clock>>
       ELSE LET r == SaveLoop([rows |-> table, seq |-> seq], ZeroCount, data, 1,
                              clock, tickAt)
            IN  /\ table' = r.db.rows
                /\ seq' = r.db.seq
                /\ clock' = r.now
                /\ last' = [NoCall EXCEPT !.op = "save", !.data = data,
                                          !.counted = TRUE, !.cnt = r.cnt,
                                          !.ret = SaveReturn(r.cnt)]

\* The orders in which ORDER BY scraped_at DESC may hand back the rows whose
\* indices are in S: every arrangement with the timestamps non-increasing.
\* SQL leaves the order of rows with equal timestamps open.
RECURSIVE Arrangements(_, _)
Arrangements(rows, S) ==
    IF S = {}
    THEN {<<>>}
    ELSE LET newest == { i \in S : \A j \in S : rows[i].scraped_at >= rows[j].scraped_at }
         IN  UNION { { <<i>> \o p : p \in Arrangements(rows, S \ {i}) } : i \in newest }

Orders(rows) == Arrangements(rows, 1..Len(rows))

\* get_all's limit argument: <<>> is None, <<n>> the integer n
Limits == {<<>>} \cup { <<n>> : n \in 0..MaxLimit }

\* "if limit:" - None and 0 are both falsy
Truthy(limit) == limit # <<>> /\ limit[1] # 0

\* The rows of the query, LIMIT applied
Fetch(rows, order, limit) ==
    LET n == IF Truthy(limit) /\ limit[1] < Len(rows) THEN limit[1] ELSE Len(rows)
    IN  [i \in 1..n |-> rows[order[i]]]

\* SQLiteStorage.get_all(limit)
GetAll(limit, order) ==
    /\ last' = [NoCall EXCEPT !.op = "get_all", !.limit = limit,
                              !.rows = Fetch(table, order, limit)]
    /\ UNCHANGED <<table, seq, clock>>
    /\ UNCHANGED <<writerVars, detVars, scraperVars, runVars>>

\* SQLiteStorage.count()
CountRows ==
    /\ last' = [NoCall EXCEPT !.op = "count", !.total = Len(table)]
    /\ UNCHANGED <<table, seq, clock>>
    /\ UNCHANGED <<writerVars, detVars, scraperVars, runVars>>

\* A second passes
Tick ==
    /\ clock < MaxClock
    /\ clock' = clock + 1
    /\ UNCHANGED <<table, seq, last>>
    /\ UNCHANGED <<writerVars, detVars, scraperVars, runVars>>

----------------------------------------------------------------------------
(* Two processes, each with its own connection to the same database file,  *)
(* each in one call of save. sqlite3.connect is given no timeout, so a      *)
(* statement that finds the file locked by the other connection's open      *)
(* transaction waits up to the default 5 seconds and then raises            *)
(* OperationalError ("database is locked").                                 *)

Writers == {1, 2}

Idle == [pc |-> "idle", data |-> <<>>, i |-> 1, cnt |-> ZeroCount, out |-> <<>>]

\* A writer enters save with a non-empty batch
Begin(w, data) ==
    /\ writers[w].pc = "idle"
    /\ data # <<>>
    /\ writers' = [writers EXCEPT ![w] = [Idle EXCEPT !.pc = "loop", !.data = data]]
    /\ UNCHANGED <<lock, work, storeVars, detVars, scraperVars, runVars>>

\* The writer's next item went through the try block with this outcome
Counted(w, outcome) ==
    [writers EXCEPT ![w].i = @ + 1,
                    ![w].cnt = Tally(@, outcome),
                    ![w].out = Append(@, outcome),
                    ![w].pc = IF Continues(outcome) THEN "loop" ELSE "done"]

\* One pass of save's loop. The first statement that gets to write opens the
\* connection's transaction and takes the write lock, which is held until
\* commit. A record that cannot be bound raises before any lock is asked for.
Insert(w) ==
    LET me == writers[w]
        item == me.data[me.i]
        db == IF lock = w THEN work ELSE [rows |-> table, seq |-> seq]
        r == InsertOrIgnore(db, item, clock)
    IN  /\ me.pc = "loop"
        /\ me.i <= Len(me.data)
        /\ lock \in {0, w} \/ Unbindable(item)
        /\ writers' = Counted(w, r.outcome)
        /\ lock' = IF Unbindable(item) THEN lock ELSE w
        /\ work' = IF Unbindable(item) THEN work ELSE r.db
        /\ UNCHANGED <<storeVars, detVars, scraperVars, runVars>>

\* The other connection kept its transaction open for longer than the busy
\* timeout: the execute raises OperationalError, which save's
\* "except Exception" counts as an error
BusyTimeout(w) ==
    LET me == writers[w]
    IN  /\ me.pc = "loop"
        /\ me.i <= Len(me.data)
        /\ lock \notin {0, w}
        /\ ~Unbindable(me.data[me.i])
        /\ writers' = Counted(w, "raise")
        /\ UNCHANGED <<lock, work, storeVars, detVars, scraperVars, runVars>>

\* self.conn.commit() after the loop, and the log line
Commit(w) ==
    LET me == writers[w]
    IN  /\ me.pc = "loop"
        /\ me.i > Len(me.data)
        /\ writers' = [writers EXCEPT ![w].pc = "done"]
        /\ IF lock = w
           THEN /\ table' = work.rows
                /\ seq' = work.seq
                /\ lock' = 0
                /\ work' = [rows |-> <<>>, seq |-> 0]
           ELSE UNCHANGED <<table, seq, lock, work>>
        /\ UNCHANGED <<clock, last, detVars, scraperVars, runVars>>

----------------------------------------------------------------------------
(* AutoDetector (src/agent/auto_detect.py). Domains are sequences of        *)
(* characters, so that "in" on two strings is the substring test it is.     *)

\* The keys of SITE_TEMPLATES, character by character
K_wikipedia_org == <<"w", "i", "k", "i", "p", "e", "d", "i", "a", ".", "o", "r", "g">>
K_medium_com == <<"m", "e", "d", "i", "u", "m", ".", "c", "o", "m">>
K_dev_to == <<"d", "e", "v", ".", "t", "o">>
K_reddit_com == <<"r", "e", "d", "d", "i", "t", ".", "c", "o", "m">>
K_stackoverflow_com == <<"s", "t", "a", "c", "k", "o", "v", "e", "r", "f", "l", "o", "w", ".", "c", "o", "m">>
K_github_com == <<"g", "i", "t", "h", "u", "b", ".", "c", "o", "m">>
K_news_ycombinator_com == <<"n", "e", "w", "s", ".", "y", "c", "o", "m", "b", "i", "n", "a", "t", "o", "r", ".", "c", "o", "m">>
K_amazon_com == <<"a", "m", "a", "z", "o", "n", ".", "c", "o", "m">>
K_mercadolivre_com_br == <<"m", "e", "r", "c", "a", "d", "o", "l", "i", "v", "r", "e", ".", "c", "o", "m", ".", "b", "r">>
K_g1_globo_com == <<"g", "1", ".", "g", "l", "o", "b", "o", ".", "c", "o", "m">>
K_uol_com_br == <<"u", "o", "l", ".", "c", "o", "m", ".", "b", "r">>
K_folha_uol_com_br == <<"f", "o", "l", "h", "a", ".", "u", "o", "l", ".", "c", "o", "m", ".", "b", "r">>
K_techcrunch_com == <<"t", "e", "c", "h", "c", "r", "u", "n", "c", "h", ".", "c", "o", "m">>
K_theverge_com == <<"t", "h", "e", "v", "e", "r", "g", "e", ".", "c", "o", "m">>

\* SITE_TEMPLATES, in the order the dict is written and iterated
SITE_TEMPLATES ==
    << [key |-> K_wikipedia_org,
        tpl |-> [container |-> ".mw-parser-output > p, .mw-parser-output > h2, .mw-parser-output > h3",
              title |-> "#firstHeading, h1",
              content |-> "p",
              link |-> "a[href]"]],
       [key |-> K_medium_com,
        tpl |-> [container |-> "article",
              title |-> "h1",
              author |-> "[rel=\"author\"], [data-testid=\"authorName\"]",
              date |-> "time",
              content |-> "article p",
              link |-> "a[href]"]],
       [key |-> K_dev_to,
        tpl |-> [container |-> ".crayons-story",
              title |-> "h2, h3",
              author |-> ".crayons-story__secondary .crayons-link",
              date |-> "time",
              content |-> ".crayons-story__body",
              link |-> "a[href]"]],
       [key |-> K_reddit_com,
        tpl |-> [container |-> "[data-testid=\"post-container\"], .Post",
              title |-> "h3, [data-click-id=\"text\"]",
              author |-> "[data-testid=\"post_author_link\"]",
              date |-> "time",
              content |-> "[data-test-id=\"post-content\"]",
              link |-> "a[href]"]],
       [key |-> K_stackoverflow_com,
        tpl |-> [container |-> ".question-summary, .answer",
              title |-> ".question-hyperlink, h1",
              author |-> ".user-details a",
              date |-> ".relativetime",
              content |-> ".s-prose p",
              link |-> "a.question-hyperlink"]],
       [key |-> K_github_com,
        tpl |-> [container |-> "article.Box-row, .repo-list li",
              title |-> "h3, h1",
              author |-> "[itemprop=\"author\"]",
              date |-> "relative-time",
              content |-> "p.col-9",
              link |-> "a[href]"]],
       [key |-> K_news_ycombinator_com,
        tpl |-> [container |-> ".athing, tr.athing",
              title |-> ".titleline > a",
              author |-> ".hnuser",
              date |-> ".age",
              content |-> ".comment",
              link |-> ".titleline > a"]],
       [key |-> K_amazon_com,
        tpl |-> [container |-> "[data-component-type=\"s-search-result\"], .s-result-item",
              title |-> "h2 a, .s-title-instructions-style",
              author |-> ".a-size-base-plus",
              date |-> "",
              content |-> ".a-size-base-plus",
              link |-> "h2 a"]],
       [key |-> K_mercadolivre_com_br,
        tpl |-> [container |-> ".ui-search-result",
              title |-> ".ui-search-item__title",
              author |-> ".ui-search-official-store-label",
              date |-> "",
              content |-> ".ui-search-item__group__element",
              link |-> ".ui-search-link"]],
       [key |-> K_g1_globo_com,
        tpl |-> [container |-> ".feed-post-body, .widget--info",
              title |-> ".feed-post-link, h1",
              author |-> ".feed-post-metadata-section",
              date |-> ".feed-post-datetime",
              content |-> ".feed-post-body-resumo, p",
              link |-> ".feed-post-link"]],
       [key |-> K_uol_com_br,
        tpl |-> [container |-> ".thumbnails-item, article",
              title |-> ".thumb-title, h1",
              author |-> ".author",
              date |-> ".time",
              content |-> "p",
              link |-> "a[href]"]],
       [key |-> K_folha_uol_com_br,
        tpl |-> [container |-> ".c-headline, article",
              title |-> ".c-headline__title, h1",
              author |-> ".c-headline__byline",
              date |-> "time",
              content |-> ".c-news__body p",
              link |-> ".c-headline__url"]],
       [key |-> K_techcrunch_com,
        tpl |-> [container |-> ".post-block, article",
              title |-> ".post-block__title, h1",
              author |-> ".river-byline__authors",
              date |-> "time",
              content |-> ".article-content p",
              link |-> ".post-block__title__link"]],
       [key |-> K_theverge_com,
        tpl |-> [container |-> ".duet--content-cards--content-card, article",
              title |-> "h2, h1",
              author |-> ".duet--authors--name",
              date |-> "time",
              content |-> ".duet--article--article-body-component p",
              link |-> "a[href]"]] >>

Www == <<"w", "w", "w", ".">>
Blog == <<"b", "l", "o", "g", ".">>
Port8080 == <<":", "8", "0", "8", "0">>

\* Hosts that are no key of SITE_TEMPLATES
UnregisteredHosts ==
    { <<"e", "x", "a", "m", "p", "l", "e", ".", "c", "o", "m">>,
      <<"n", "o", "t", "m", "e", "d", "i", "u", "m", ".", "c", "o", "m">>,
      <<"g", "i", "t", "h", "u", "b", ".", "c", "o", "m", ".", "e", "v", "i", "l", ".", "n", "e", "t">> }

RegisteredKeys == { SITE_TEMPLATES[i].key : i \in 1..Len(SITE_TEMPLATES) }

\* The page URLs, as urlparse splits them: the host and the explicit port
\* (empty when the URL names none). Every registered key as it stands, behind
\* www., behind another label, and with a port; and the unregistered hosts.
Urls ==
    { [host |-> pre \o k, port |-> <<>>] :
        pre \in {<<>>, Www, Blog}, k \in RegisteredKeys \cup UnregisteredHosts }
    \cup { [host |-> k, port |-> Port8080] : k \in RegisteredKeys }

\* urlparse(url).netloc: the host and, when the URL names one, ":port"
Netloc(url) == url.host \o url.port

StartsWith(s, prefix) ==
    Len(s) >= Len(prefix) /\ SubSeq(s, 1, Len(prefix)) = prefix

\* Python's "a in b" on strings
IsSubstring(a, b) ==
    \E i \in 0..(Len(b) - Len(a)) : SubSeq(b, i + 1, i + Len(a)) = a

\* AutoDetector._extract_domain
ExtractDomain(url) ==
    LET domain == Netloc(url)
    IN  IF StartsWith(domain, Www) THEN SubSeq(domain, 5, Len(domain)) ELSE domain

\* Mutant: the partial search runs before the exact one
TryTemplatePartialFirst(domain) ==
    LET hits == { i \in 1..Len(registry) : IsSubstring(registry[i].key, domain) }
    IN  IF hits # {}
        THEN <<registry[CHOOSE i \in hits : \A j \in hits : i <= j]>>
        ELSE <<>>

\* AutoDetector._try_template: <<>> is None, <<entry>> the entry found in
\* the dict as it is when the lookup runs
TryTemplate(domain) ==
    LET exact == { i \in 1..Len(registry) : registry[i].key = domain }
        hits == { i \in 1..Len(registry) : IsSubstring(registry[i].key, domain) }
    IN  IF exact # {}
        THEN <<registry[CHOOSE i \in exact : TRUE]>>
        ELSE IF hits # {}
        THEN <<registry[CHOOSE i \in hits : \A j \in hits : i <= j]>>
        ELSE <<>>

\* The place of a key in the dict
IndexOf(key) == CHOOSE i \in 1..Len(registry) : registry[i].key = key

\* Mutant: the template dict itself is returned
DictAlias(i) == i

\* SITE_TEMPLATES[...].copy(): which registry entry's dict object the returned
\* dict is - none (0), it is a new dict. The values are str, which cannot be
\* changed in place, so a shallow copy shares nothing that can change.
DictCopy(i) == 0

\* The band of element counts a container candidate is accepted in
MinItems == 3
MaxItems == 100

SemanticTags == <<"article", "section[class*=\"post\"]", "section[class*=\"item\"]">>
CommonClasses ==
    <<".post", ".card", ".item", ".entry", ".article-item",
      "[class*=\"post\"]", "[class*=\"card\"]", "[class*=\"item\"]",
      "[class*=\"story\"]", "[class*=\"content-item\"]">>
\* Mutant: the fallback container selector is empty
ContainerFallbackEmpty == ""

ContainerFallback == "article, .post, .card, .item, .entry, section[class*=\"post\"]"

Headings == <<"h1", "h2", "h3">>
TitleClasses == <<".title", ".headline", "[class*=\"title\"]", "[class*=\"heading\"]">>
TitleFallback == "h1, h2, h3, .title, .headline"

AuthorSelectors ==
    <<".author", ".byline", "[class*=\"author\"]", "[rel=\"author\"]",
      "[itemprop=\"author\"]", ".meta-author", ".writer">>
AuthorFallback == ".author, .byline, [rel=\"author\"]"

DateSelectors ==
    <<"time", "[datetime]", ".date", ".published", "[class*=\"date\"]",
      "[class*=\"time\"]", ".meta-date", ".timestamp">>
DateFallback == "time, .date, .published"

ContentSelectors ==
    <<".content", ".description", ".summary", ".excerpt", "[class*=\"content\"]",
      "[class*=\"description\"]", "p", ".text">>
ContentFallback == ".content, .description, .summary, p"

Elems(q) == { q[i] : i \in 1..Len(q) }

ContainerCandidates == Elems(SemanticTags) \cup Elems(CommonClasses)

Candidates ==
    ContainerCandidates \cup Elems(Headings) \cup Elems(TitleClasses)
        \cup Elems(AuthorSelectors) \cup Elems(DateSelectors) \cup Elems(ContentSelectors)

\* What page.query_selector_all(selector) does: it raises, or returns n elements
Absent == [throws |-> FALSE, n |-> 0]

Answers ==
    { [throws |-> TRUE, n |-> 0] }
        \cup { [throws |-> FALSE, n |-> c] :
                 c \in {MinItems - 1, MinItems, MaxItems, MaxItems + 1} }

\* The pages: no candidate matches anything; one candidate answers; two
\* container candidates answer
Doms ==
    { [s \in Candidates |-> Absent] }
        \cup { [s \in Candidates |-> IF s = a THEN x ELSE Absent] :
                 a \in Candidates, x \in Answers }
        \cup { [s \in Candidates |-> IF s = a THEN x ELSE IF s = b THEN y ELSE Absent] :
                 a \in ContainerCandidates, b \in ContainerCandidates,
                 x \in Answers, y \in Answers }

\* Mutant: any candidate that matches something is accepted
AcceptsAnyCount(band, n) == n > 0

\* "3 <= count <= 100" for a container, "count > 0" for the other fields
Accepts(band, n) == IF band THEN MinItems <= n /\ n <= MaxItems ELSE n > 0

\* One of the detector's for loops from candidate i on: the first candidate
\* accepted ("hit"), none ("miss"), or the exception of a query made outside
\* a try block ("raise"); with the queries made
RECURSIVE Scan(_, _, _, _, _, _)
Scan(dom, cands, i, band, guarded, probes) ==
    IF i > Len(cands)
    THEN [status |-> "miss", sel |-> "", probes |-> probes]
    ELSE LET answer == dom[cands[i]]
             made == Append(probes, cands[i])
         IN  IF answer.throws
             THEN IF guarded
                  THEN Scan(dom, cands, i + 1, band, guarded, made)
                  ELSE [status |-> "raise", sel |-> "", probes |-> made]
             ELSE IF Accepts(band, answer.n)
                  THEN [status |-> "hit", sel |-> cands[i], probes |-> made]
                  ELSE Scan(dom, cands, i + 1, band, guarded, made)

\* A first loop without try/except, then a second loop inside one, then the
\* fallback selector
TwoLoops(dom, first, second, band, fallback) ==
    LET a == Scan(dom, first, 1, band, FALSE, <<>>)
        b == Scan(dom, second, 1, band, TRUE, a.probes)
    IN  IF a.status # "miss"
        THEN a
        ELSE IF b.status = "hit" THEN b
        ELSE [status |-> "hit", sel |-> fallback, probes |-> b.probes]

\* AutoDetector._detect_container
DetectContainer(dom) ==
    TwoLoops(dom, SemanticTags, CommonClasses, TRUE, ContainerFallback)

\* AutoDetector._detect_title
DetectTitle(dom) ==
    TwoLoops(dom, Headings, TitleClasses, FALSE, TitleFallback)

\* AutoDetector._detect_author
DetectAuthor(dom) ==
    TwoLoops(dom, <<>>, AuthorSelectors, FALSE, AuthorFallback)

\* AutoDetector._detect_date
DetectDate(dom) ==
    TwoLoops(dom, <<>>, DateSelectors, FALSE, DateFallback)

\* AutoDetector._detect_content
DetectContent(dom) ==
    TwoLoops(dom, <<>>, ContentSelectors, FALSE, ContentFallback)

NoSelectors == [f \in {} |-> ""]

\* AutoDetector._heuristic_detection: the five detections in turn; an
\* exception out of one ends the call
HeuristicDetection(dom) ==
    LET c == DetectContainer(dom)
        t == DetectTitle(dom)
        a == DetectAuthor(dom)
        d == DetectDate(dom)
        x == DetectContent(dom)
    IN  IF c.status = "raise"
        THEN [raised |-> TRUE, selectors |-> NoSelectors, probes |-> c.probes]
        ELSE IF t.status = "raise"
        THEN [raised |-> TRUE, selectors |-> NoSelectors, probes |-> c.probes \o t.probes]
        ELSE [raised |-> FALSE,
              selectors |-> [container |-> c.sel, title |-> t.sel, author |-> a.sel,
                             date |-> d.sel, content |-> x.sel, link |-> "a[href]"],
              probes |-> c.probes \o t.probes \o a.probes \o d.probes \o x.probes]

\* A page on which no candidate selector matches anything
BlankPage == [s \in Candidates |-> Absent]

\* The record of a detector: the page it was built on (url, page), the domain
\* and template key it settled on, whether detect raised, the dict it
\* returned and the registry entry that dict is (ref, 0 for a dict of its
\* own), and the queries it made
NoDetector ==
    [op |-> "new", url |-> [host |-> <<>>, port |-> <<>>], page |-> BlankPage,
     domain |-> <<>>, key |-> <<>>, raised |-> FALSE, selectors |-> NoSelectors,
     ref |-> 0, probes |-> <<>>]

\* "if template:" - a dict is truthy unless it is empty
NonEmptyDict(found) == found # <<>> /\ DOMAIN found[1].tpl # {}

\* auto_detect_selectors(page): AutoDetector(page).detect()
Detect(url, dom) ==
    LET domain == ExtractDomain(url)
        found == TryTemplate(domain)
        h == HeuristicDetection(dom)
    IN  /\ det.op = "new"
        /\ det' = IF NonEmptyDict(found)
                  THEN [op |-> "detect", url |-> url, page |-> dom, domain |-> domain,
                        key |-> found[1].key, raised |-> FALSE,
                        selectors |-> found[1].tpl,
                        ref |-> DictCopy(IndexOf(found[1].key)), probes |-> <<>>]
                  ELSE [op |-> "detect", url |-> url, page |-> dom, domain |-> domain,
                        key |-> <<>>, raised |-> h.raised,
                        selectors |-> h.selectors, ref |-> 0, probes |-> h.probes]
        /\ UNCHANGED <<storeVars, writerVars, registry, scraperVars, runVars>>

\* The fields a caller sets or removes, and the value it sets
SelectorKeys == {"container", "title", "author", "date", "content", "link"}
CustomValue == ".custom"

\* dict[key] = value / del dict[key] on a dict
SetItem(d, key, value) ==
    [k \in DOMAIN d \cup {key} |-> IF k = key THEN value ELSE d[k]]
DelItem(d, key) == [k \in DOMAIN d \ {key} |-> d[k]]

\* The caller changed the dict detect returned into d: the change lands in
\* the object the caller holds, and in the registry when that object is a
\* registry entry's dict
Edited(d) ==
    /\ det' = [det EXCEPT !.op = "edited", !.selectors = d]
    /\ registry' = IF det.ref = 0
                   THEN registry
                   ELSE [registry EXCEPT ![det.ref].tpl = d]
    /\ UNCHANGED <<storeVars, writerVars, scraperVars, runVars>>

\* The caller overrides a field of the returned dict
Override(key) ==
    /\ det.op \in {"detect", "edited"}
    /\ ~det.raised
    /\ Edited(SetItem(det.selectors, key, CustomValue))

\* The caller deletes a field of the returned dict
Delete(key) ==
    /\ det.op \in {"detect", "edited"}
    /\ ~det.raised
    /\ key \in DOMAIN det.selectors
    /\ Edited(DelItem(det.selectors, key))

\* The caller is done with the detector and its dict
Discard ==
    /\ det.op \in {"detect", "edited"}
    /\ det' = NoDetector
    /\ UNCHANGED <<storeVars, writerVars, registry, scraperVars, runVars>>

----------------------------------------------------------------------------
(* WebScraper (src/agent/scraper.py) and the GUI run of src/app.py          *)

\* WebScraper.SELECTORS as the class body writes it
DefaultSelectors ==
    [container |-> "article, .post, .card, .item, .news-item",
     title |-> "h1, h2, h3, .title, .headline",
     author |-> ".author, .byline, [rel=\"author\"]",
     date |-> "time, .date, .published",
     content |-> ".content, .description, .summary, p",
     link |-> "a[href]"]

\* The fields in the order _extract_item_data extracts them
Fields == <<"title", "author", "date", "content", "link">>

\* What a container does when a field is extracted from it: query_selector
\* finds no element (Missing); the query, inner_text, get_attribute or
\* evaluate raises (Raises); or the element yields a string (Yields) - the
\* stripped inner text, or the href of a link ("" when the element has no
\* href). A date element (DateEl) has a datetime attribute, which may be
\* absent (NULL), and an inner text as written in the page.
Missing == [kind |-> "none", value |-> "", datetime |-> NULL]
Raises == [kind |-> "raise", value |-> "", datetime |-> NULL]
Yields(v) == [kind |-> "value", value |-> v, datetime |-> NULL]
DateEl(datetime, text) == [kind |-> "value", value |-> text, datetime |-> datetime]

\* str.strip() on the inner texts of the date elements
Strip(text) ==
    CASE text = " D " -> "D"
      [] text = "  "  -> ""
      [] OTHER        -> text

\* Mutant: the inner text is taken when there is one, the attribute otherwise
DateValueTextFirst(el) ==
    IF Strip(el.value) # "" THEN Strip(el.value) ELSE el.datetime

\* date_el.get_attribute('datetime'), and the stripped inner text "if not
\* date_value" (the attribute is None or '')
DateValue(el) ==
    IF el.datetime \notin {NULL, ""} THEN el.datetime ELSE Strip(el.value)

\* page.evaluate("new URL(href, window.location.href).href"): a relative
\* href is resolved against the page, an absolute one is kept
AbsoluteUrl(href) ==
    IF href = "/a" THEN "https://example.com/a" ELSE href

\* The containers of the scraped pages: one with every field, its date with
\* a datetime attribute and a text; one with a title only; one with a link
\* and a date of blank text and no attribute; one with author, date (text
\* only) and content and neither title nor link; one whose title is blank
\* and whose link element has no href; three that raise at the author, at
\* the link and at the title; and one with a title and a date whose
\* datetime attribute is empty
Containers ==
    { [title |-> Yields("T1"), author |-> Yields("A"),
       date |-> DateEl("2024-01-01", " D "),
       content |-> Yields("X"), link |-> Yields("/a")],
      [title |-> Yields("T2"), author |-> Missing, date |-> Missing,
       content |-> Missing, link |-> Missing],
      [title |-> Missing, author |-> Missing, date |-> DateEl(NULL, "  "),
       content |-> Missing, link |-> Yields("https://other.org/b")],
      [title |-> Missing, author |-> Yields("A"), date |-> DateEl(NULL, " D "),
       content |-> Yields("X"), link |-> Missing],
      [title |-> Yields(""), author |-> Missing, date |-> Missing,
       content |-> Yields("X"), link |-> Yields("")],
      [title |-> Yields("T1"), author |-> Raises, date |-> Missing,
       content |-> Yields("X"), link |-> Yields("/a")],
      [title |-> Yields("T2"), author |-> Missing, date |-> Missing,
       content |-> Yields("X"), link |-> Raises],
      [title |-> Raises, author |-> Yields("A"), date |-> DateEl(NULL, " D "),
       content |-> Yields("X"), link |-> Yields("/a")],
      [title |-> Yields("T2"), author |-> Missing, date |-> DateEl("", " D "),
       content |-> Missing, link |-> Missing] }

\* The container selectors a page is asked for
ContainerSelectors == {DefaultSelectors.container, CustomValue}

\* A page: whether query_selector_all raises on it, and the containers it
\* holds, in document order, for each container selector
ScrapedPage(throws, found, other) ==
    [throws |-> throws,
     matches |-> [sel \in ContainerSelectors |->
                    IF sel = DefaultSelectors.container THEN found ELSE other]]

\* The pages scraped with the selectors as they are written
Pages ==
    { ScrapedPage(FALSE, cs, <<>>) : cs \in SeqsUpTo(Containers, MaxContainers) }
        \cup { ScrapedPage(TRUE, <<>>, <<>>) }

\* The page of the GUI runs: it answers the written container selector and
\* the custom one with different containers
GuiPage ==
    ScrapedPage(FALSE,
        << [title |-> Yields("T1"), author |-> Yields("A"),
            date |-> DateEl("2024-01-01", " D "),
            content |-> Yields("X"), link |-> Yields("/a")] >>,
        << [title |-> Yields("T2"), author |-> Missing, date |-> Missing,
            content |-> Missing, link |-> Missing] >>)

\* max_items: <<>> is None, <<m>> the integer m
MaxItemsArgs == {<<>>} \cup { <<m>> : m \in 0..MaxItemsArg }

NoFields == [f \in {} |-> ""]

\* One field of _extract_item_data: the item with the field set, when the
\* element was found (and, for the link, has an href)
ExtractField(item, field, does) ==
    IF does.kind = "none"
    THEN item
    ELSE IF field = "link"
    THEN IF does.value # "" THEN SetItem(item, "link", AbsoluteUrl(does.value)) ELSE item
    ELSE IF field = "date"
    THEN SetItem(item, "date", DateValue(does))
    ELSE SetItem(item, field, does.value)

\* WebScraper._extract_item_data from field i on: it has no try block, so
\* the first field that raises ends it and the item built so far is lost
RECURSIVE ExtractItemData(_, _, _)
ExtractItemData(container, item, i) ==
    IF i > Len(Fields)
    THEN [raised |-> FALSE, item |-> item]
    ELSE IF container[Fields[i]].kind = "raise"
    THEN [raised |-> TRUE, item |-> NoFields]
    ELSE ExtractItemData(container,
                         ExtractField(item, Fields[i], container[Fields[i]]), i + 1)

\* A str that is not None and not ''
NonEmpty(v) == v # NULL /\ v # ""

\* Mutant: every extracted item is kept
HasTitleOrLinkAlways(item) == TRUE

\* "if item.get('title') or item.get('link')"
HasTitleOrLink(item) == NonEmpty(Get(item, "title")) \/ NonEmpty(Get(item, "link"))

\* "if max_items:" - None and 0 are both falsy
Limited(max_items) == max_items # <<>> /\ max_items[1] # 0

\* containers[:max_items] when max_items is truthy
Truncate(containers, max_items) ==
    IF Limited(max_items) /\ max_items[1] < Len(containers)
    THEN SubSeq(containers, 1, max_items[1])
    ELSE containers

\* Mutant: the loop body has no try block of its own
ItemGuardedNot == FALSE

\* Whether the body of the for loop sits in its own try/except Exception
ItemGuarded == TRUE

\* Whether the whole of extract_data's work sits in a try/except Exception
OuterGuarded == TRUE

\* Mutant: a new item goes to the front of the list
PrependItem(data, item) == <<item>> \o data

\* data.append(item)
AppendItem(data, item) == Append(data, item)

\* extract_data's for loop from container idx on: the data collected, the
\* positions of the containers it came from, and whether an exception left
\* the loop
RECURSIVE ExtractLoop(_, _, _, _)
ExtractLoop(containers, idx, data, kept) ==
    IF idx > Len(containers)
    THEN [raised |-> FALSE, data |-> data, kept |-> kept]
    ELSE LET r == ExtractItemData(containers[idx], NoFields, 1)
         IN  IF r.raised
             THEN IF ItemGuarded
                  THEN ExtractLoop(containers, idx + 1, data, kept)
                  ELSE [raised |-> TRUE, data |-> data, kept |-> kept]
             ELSE IF HasTitleOrLink(r.item)
             THEN ExtractLoop(containers, idx + 1, AppendItem(data, r.item),
                              Append(kept, idx))
             ELSE ExtractLoop(containers, idx + 1, data, kept)

\* The record of a scraper: the fields overridden on it (custom), and of its
\* last extract_data call the page, max_items, the selectors it read, the
\* containers it went through, the list it returned, the container each
\* returned record came from, and whether the call raised
NoScraper ==
    [op |-> "none", custom |-> {}, page |-> ScrapedPage(FALSE, <<>>, <<>>),
     max_items |-> <<>>, used |-> DefaultSelectors, containers |-> <<>>,
     data |-> <<>>, kept |-> <<>>, raised |-> FALSE]

\* WebScraper(headless=...): __init__ sets instance attributes only
NewScraper ==
    /\ scraper.op # "new"
    /\ scraper' = [NoScraper EXCEPT !.op = "new"]
    /\ UNCHANGED <<SELECTORS, storeVars, writerVars, detVars, runVars>>

\* RECURSIVE helper of ApplyCustom: d[key] = CustomValue for each key of keys
RECURSIVE SetItems(_, _)
SetItems(d, keys) ==
    IF keys = {}
    THEN d
    ELSE LET key == CHOOSE k \in keys : TRUE
         IN  SetItems(SetItem(d, key, CustomValue), keys \ {key})

\* app.py: "scraper.SELECTORS[key] = value" for every custom selector given.
\* The instance has no SELECTORS of its own, so the attribute is the class's
\* dict and the item assignment changes that dict.
ApplyCustom(keys) ==
    /\ scraper.op = "new"
    /\ keys # {}
    /\ SELECTORS' = SetItems(SELECTORS, keys)
    /\ scraper' = [scraper EXCEPT !.op = "custom", !.custom = keys]
    /\ UNCHANGED <<storeVars, writerVars, detVars, runVars>>

\* The scraper has been built, and given custom selectors or not, and has
\* not extracted yet: main.py and app.py call extract_data once per scraper
Ready == scraper.op \in {"new", "custom"}

\* WebScraper.extract_data(max_items) on a page
ExtractData(page, max_items) ==
    LET found == page.matches[SELECTORS.container]
        containers == Truncate(found, max_items)
        r == ExtractLoop(containers, 1, <<>>, <<>>)
    IN  /\ Ready
        /\ scraper' =
             IF page.throws
             THEN [scraper EXCEPT !.op = "extract", !.page = page,
                                  !.max_items = max_items, !.used = SELECTORS,
                                  !.containers = <<>>, !.data = <<>>,
                                  !.kept = <<>>, !.raised = ~OuterGuarded]
             ELSE [scraper EXCEPT !.op = "extract", !.page = page,
                                  !.max_items = max_items, !.used = SELECTORS,
                                  !.containers = containers, !.data = r.data,
                                  !.kept = r.kept,
                                  !.raised = r.raised /\ ~OuterGuarded]
        /\ UNCHANGED <<SELECTORS, storeVars, writerVars, detVars, runVars>>

----------------------------------------------------------------------------
(* A run of main() (src/main.py) around extract_data, one container at a    *)
(* time, with the user pressing Ctrl-C while the loop runs                  *)

\* "except Exception" catches Exception and its subclasses, which the errors
\* of Playwright are; KeyboardInterrupt derives from BaseException
ExceptException(exc) == exc = "Exception"

\* The record of a run: where it stands, the containers extract_data goes
\* through and the one it is at, extract_data's local list (data), the list
\* main holds in its own variable (held) and the list given to save_data
NoJob ==
    [pc |-> "idle", containers |-> <<>>, idx |-> 1, data |-> <<>>,
     held |-> <<>>, saved |-> <<>>]

\* main calls scraper.extract_data(max_items): the query for the containers
\* and the cut to max_items; a query that raises is caught by the outer
\* handler and extract_data returns its empty list
BeginExtract(page, max_items) ==
    /\ job.pc = "idle"
    /\ job' = IF page.throws
              THEN [NoJob EXCEPT !.pc = IF OuterGuarded /\ ExceptException("Exception")
                                        THEN "returned" ELSE "failed"]
              ELSE [NoJob EXCEPT !.pc = "loop",
                                 !.containers =
                                    Truncate(page.matches[SELECTORS.container], max_items)]
    /\ UNCHANGED <<storeVars, writerVars, detVars, scraperVars, session, scroll, refined>>

\* One pass of extract_data's for loop
LoopStep ==
    LET r == ExtractItemData(job.containers[job.idx], NoFields, 1)
    IN  /\ job.pc = "loop"
        /\ job.idx <= Len(job.containers)
        /\ job' = IF r.raised
                  THEN IF ItemGuarded /\ ExceptException("Exception")
                       THEN [job EXCEPT !.idx = @ + 1]
                       ELSE [job EXCEPT !.pc = "returned", !.held = job.data]
                  ELSE IF HasTitleOrLink(r.item)
                  THEN [job EXCEPT !.idx = @ + 1, !.data = AppendItem(@, r.item)]
                  ELSE [job EXCEPT !.idx = @ + 1]
        /\ UNCHANGED <<storeVars, writerVars, detVars, scraperVars, session, scroll, refined>>

\* The loop is through: "return data", and main binds the list
LoopEnd ==
    /\ job.pc = "loop"
    /\ job.idx > Len(job.containers)
    /\ job' = [job EXCEPT !.pc = "returned", !.held = job.data]
    /\ UNCHANGED <<storeVars, writerVars, detVars, scraperVars, session, scroll, refined>>

\* KeyboardInterrupt is raised while a container is being processed. The
\* handler inside the loop would go on to the next container, the handler
\* around the loop would return the list; an exception neither catches
\* leaves extract_data, whose list is lost with its frame, and reaches
\* main's "except KeyboardInterrupt: sys.exit(0)" with main's variable unbound.
Interrupt ==
    /\ job.pc = "loop"
    /\ job.idx <= Len(job.containers)
    /\ job' = IF ItemGuarded /\ ExceptException("KeyboardInterrupt")
              THEN [job EXCEPT !.idx = @ + 1]
              ELSE IF OuterGuarded /\ ExceptException("KeyboardInterrupt")
              THEN [job EXCEPT !.pc = "returned", !.held = job.data]
              ELSE [job EXCEPT !.pc = "cancelled", !.held = <<>>]
    /\ UNCHANGED <<storeVars, writerVars, detVars, scraperVars, session, scroll, refined>>

\* main after extract_data: "if not data: sys.exit(0)", else save_data(data)
AfterExtract ==
    /\ job.pc = "returned"
    /\ job' = IF job.held = <<>>
              THEN [job EXCEPT !.pc = "exit"]
              ELSE [job EXCEPT !.pc = "saved", !.saved = job.held]
    /\ UNCHANGED <<storeVars, writerVars, detVars, scraperVars, session, scroll, refined>>

----------------------------------------------------------------------------
(* "with WebScraper(...) as scraper:" (src/agent/scraper.py): __enter__     *)
(* calls start(), the body may call start() again, __exit__ calls close().  *)
(* Every call into Playwright may raise.                                    *)

\* The objects start() creates, in the order it creates them, and the order
\* in which close() closes them
LaunchOrder == <<"playwright", "browser", "context", "page">>
CloseOrder == <<"page", "context", "browser", "playwright">>

\* The browser_type values start() accepts, and one it does not
BrowserTypes == {"chromium", "firefox", "webkit"}
BrowserTypeArgs == BrowserTypes \cup {"opera"}

\* The record of a block: where it stands; the constructor's arguments; the
\* attributes self.playwright, self.browser, self.context and self.page,
\* each None (0) or the object made by the n-th call of start; every object
\* launched and every object closed, as [kind, by]; the calls of start so
\* far; and the place in LaunchOrder or CloseOrder
NoSession ==
    [pc |-> "none", browser_type |-> "chromium", headless |-> FALSE,
     self |-> [k \in {"playwright", "browser", "context", "page"} |-> 0],
     launched |-> {}, closed |-> {}, starts |-> 0, step |-> 1]

\* "with WebScraper(headless=..., browser_type=...) as scraper": __init__
\* sets the four attributes to None and __enter__ enters start()
EnterWith(browser_type, headless) ==
    /\ session.pc = "none"
    /\ session' = [NoSession EXCEPT !.pc = "start", !.browser_type = browser_type,
                                    !.headless = headless, !.starts = 1]
    /\ UNCHANGED <<storeVars, writerVars, detVars, scraperVars, job, scroll, refined>>

\* The next statement of start() succeeds: the object is made and assigned
\* to its attribute, whatever the attribute held before
Launch ==
    LET kind == LaunchOrder[session.step]
    IN  /\ session.pc = "start"
        /\ kind = "browser" => session.browser_type \in BrowserTypes
        /\ session' = [session EXCEPT
                          !.self[kind] = session.starts,
                          !.launched = @ \cup {[kind |-> kind, by |-> session.starts]},
                          !.step = IF session.step = Len(LaunchOrder) THEN 1 ELSE @ + 1,
                          !.pc = IF session.step = Len(LaunchOrder) THEN "body" ELSE "start"]
        /\ UNCHANGED <<storeVars, writerVars, detVars, scraperVars, job, scroll, refined>>

\* The next statement of start() raises (Playwright fails, or "raise
\* ValueError" for a browser_type it does not know). Out of __enter__ the
\* exception skips the block and __exit__; out of the body it runs __exit__.
LaunchRaises ==
    /\ session.pc = "start"
    /\ session' = [session EXCEPT !.pc = IF session.starts = 1 THEN "failed" ELSE "close",
                                  !.step = 1]
    /\ UNCHANGED <<storeVars, writerVars, detVars, scraperVars, job, scroll, refined>>

\* The body calls scraper.start(storage_state=...) as scrape() and main() do
StartAgain ==
    /\ session.pc = "body"
    /\ session.starts < MaxStarts
    /\ session' = [session EXCEPT !.pc = "start", !.starts = @ + 1, !.step = 1]
    /\ UNCHANGED <<storeVars, writerVars, detVars, scraperVars, job, scroll, refined>>

\* The body ends: __exit__ calls close()
ExitWith ==
    /\ session.pc = "body"
    /\ session' = [session EXCEPT !.pc = "close", !.step = 1]
    /\ UNCHANGED <<storeVars, writerVars, detVars, scraperVars, job, scroll, refined>>

\* The next "if self.x: self.x.close()" of close(): the object the
\* attribute holds now is closed
CloseStep ==
    LET kind == CloseOrder[session.step]
    IN  /\ session.pc = "close"
        /\ session' = [session EXCEPT
                          !.closed = IF session.self[kind] = 0
                                     THEN @
                                     ELSE @ \cup {[kind |-> kind, by |-> session.self[kind]]},
                          !.step = IF session.step = Len(CloseOrder) THEN 1 ELSE @ + 1,
                          !.pc = IF session.step = Len(CloseOrder) THEN "exited" ELSE "close"]
        /\ UNCHANGED <<storeVars, writerVars, detVars, scraperVars, job, scroll, refined>>

----------------------------------------------------------------------------
(* WebScraper.scroll_to_bottom (src/agent/scraper.py), one pass of its      *)
(* while loop per step. The page decides every height it reports.           *)

Heights == 0..MaxHeight

\* The record of a call: where it stands, max_scrolls, the locals
\* last_height and scrolls, the "window.scrollTo" evaluations made so far
\* and every height measured so far
NoScroll ==
    [pc |-> "idle", max_scrolls |-> 0, last_height |-> 0, scrolls |-> 0,
     actions |-> 0, heights |-> <<>>]

\* A mutant of ReachedEnd: an unchanged height never ends the loop
ReachedEndNever(new_height, last_height) == FALSE

\* "if new_height == last_height: ... break"
ReachedEnd(new_height, last_height) == new_height = last_height

\* scroll_to_bottom(max_scrolls=...): the first height is measured and
\* scrolls starts at 0
BeginScroll(max_scrolls, height) ==
    /\ scroll.pc = "idle"
    /\ scroll' = [NoScroll EXCEPT !.pc = "loop", !.max_scrolls = max_scrolls,
                                  !.last_height = height, !.heights = <<height>>]
    /\ UNCHANGED <<storeVars, writerVars, detVars, scraperVars, job, session, refined>>

\* One pass of the loop: scroll, sleep, measure; leave the loop on an
\* unchanged height, else remember the height and count the scroll
ScrollStep(new_height) ==
    /\ scroll.pc = "loop"
    /\ scroll.scrolls < scroll.max_scrolls
    /\ scroll' = IF ReachedEnd(new_height, scroll.last_height)
                 THEN [scroll EXCEPT !.pc = "done", !.actions = @ + 1,
                                     !.heights = Append(@, new_height)]
                 ELSE [scroll EXCEPT !.last_height = new_height, !.scrolls = @ + 1,
                                     !.actions = @ + 1,
                                     !.heights = Append(@, new_height)]
    /\ UNCHANGED <<storeVars, writerVars, detVars, scraperVars, job, session, refined>>

\* "while scrolls < max_scrolls" is false: the loop ends
EndScroll ==
    /\ scroll.pc = "loop"
    /\ scroll.scrolls >= scroll.max_scrolls
    /\ scroll' = [scroll EXCEPT !.pc = "done"]
    /\ UNCHANGED <<storeVars, writerVars, detVars, scraperVars, job, session, refined>>

\* page.evaluate raises inside a pass, at the scroll itself or at the
\* measurement after it: the exception leaves scroll_to_bottom
ScrollRaises(scrolled) ==
    /\ scroll.pc = "loop"
    /\ scroll.scrolls < scroll.max_scrolls
    /\ scroll' = [scroll EXCEPT !.pc = "raised",
                                !.actions = IF scrolled THEN @ + 1 ELSE @]
    /\ UNCHANGED <<storeVars, writerVars, detVars, scraperVars, job, session, refined>>

----------------------------------------------------------------------------
(* LLMRefiner.refine_batch (src/agent/llm_refiner.py) and the methods it    *)
(* calls. The reply of the chat completion is given by its lines; the call  *)
(* may raise instead.                                                       *)

ApiError == [ok |-> FALSE, lines |-> <<>>]
Reply(lines) == [ok |-> TRUE, lines |-> lines]

\* The replies of this model: a numbered list with a dashed line in it, a
\* reply with no usable point, and a failed call
Replies == {ApiError, Reply(<<"1. a", " - b ", "3) c">>), Reply(<<"intro:", "2.">>)}

\* A value of the field that is no str (an int); the field's values
NonStr == "<int 5>"
FieldTexts == {"", "t1", "3 tips", NonStr}

\* The items of this model: the five fields of a scraped item, the content
\* taking every value of FieldTexts, and an item with no content key
RefineItems ==
    {[title |-> "3 tips", author |-> "A", date |-> "D", link |-> "L"]}
        \cup {[title |-> "T", author |-> "A", date |-> "D", content |-> c, link |-> "L"] :
                 c \in FieldTexts}

RefineFields == {"content", "title"}
Operations == {"summarize", "clean", "extract_points", "translate"}

\* sep.join(parts)
RECURSIVE Join(_, _)
Join(sep, parts) ==
    IF parts = <<>> THEN ""
    ELSE IF Len(parts) = 1 THEN parts[1]
    ELSE parts[1] \o sep \o Join(sep, Tail(parts))

\* refine_text: the stripped reply, or the text itself when the call raised
RefineText(text, reply) == IF reply.ok THEN Join("\n", reply.lines) ELSE text

\* "result.split('\n')" on what refine_text returned; no text of FieldTexts
\* holds a newline
ResultLines(text, reply) == IF reply.ok THEN reply.lines ELSE <<text>>

\* line.strip() on the lines of this model
StripLine(line) == IF line = " - b " THEN "- b" ELSE line

\* "line and (line[0].isdigit() or line.startswith('-'))"
IsPoint(line) == line \in {"1. a", "- b", "3) c", "2.", "3 tips"}

\* "line.lstrip('0123456789.-) ').strip()"
CleanLine(line) ==
    CASE line = "1. a" -> "a"
      [] line = "- b" -> "b"
      [] line = "3) c" -> "c"
      [] line = "2." -> ""
      [] line = "3 tips" -> "tips"
      [] OTHER -> line

\* The loop of extract_key_points over the lines
RECURSIVE Points(_)
Points(lines) ==
    IF lines = <<>> THEN <<>>
    ELSE LET line == StripLine(lines[1])
         IN  IF IsPoint(line) /\ CleanLine(line) # ""
             THEN <<CleanLine(line)>> \o Points(Tail(lines))
             ELSE Points(Tail(lines))

\* "item.get(field, '')" and "not text"
ItemGet(item, field) == IF field \in DOMAIN item THEN item[field] ELSE ""
Falsy(text) == text \in {"", NULL}

\* The except branch of the loop is reached when extract_key_points splits
\* a result that is no str: the call raised and the text was no str
SplitRaises(text, reply) == ~reply.ok /\ text = NonStr

\* A mutant of KeepOriginal: the item of the except branch is dropped
DropOriginal(refined_data, item) == refined_data

\* "refined_data.append(item)  # Mantem original" of the except branch
KeepOriginal(refined_data, item) == Append(refined_data, item)

\* One pass of refine_batch's loop on an item: the item as it is appended
RefineItem(item, field, operation, reply) ==
    LET text == ItemGet(item, field)
    IN  CASE operation = "summarize" ->
               SetItem(item, field \o "_summary", RefineText(text, reply))
          [] operation = "clean" ->
               SetItem(item, field \o "_cleaned", RefineText(text, reply))
          [] operation = "extract_points" ->
               SetItem(item, field \o "_key_points",
                       Join(" | ", Points(ResultLines(text, reply))))
          [] OTHER -> item

\* The loop of refine_batch from item i on; replies[i] is what the chat
\* completion does when it is called for item i
RECURSIVE RefineLoop(_, _, _, _, _, _)
RefineLoop(data, replies, field, operation, refined_data, i) ==
    IF i > Len(data) THEN refined_data
    ELSE LET item == data[i]
             text == ItemGet(item, field)
             next == IF Falsy(text)
                     THEN Append(refined_data, item)
                     ELSE IF operation = "extract_points" /\ SplitRaises(text, replies[i])
                     THEN KeepOriginal(refined_data, item)
                     ELSE Append(refined_data, RefineItem(item, field, operation, replies[i]))
         IN  RefineLoop(data, replies, field, operation, next, i + 1)

\* No call of refine_batch yet
NoRefine ==
    [op |-> "none", data |-> <<>>, replies |-> <<>>, field |-> "content",
     operation |-> "summarize", output |-> <<>>]

\* refiner.refine_batch(data, field, operation); data is kept as it was
\* handed in, output is the list returned
RefineBatch(data, replies, field, operation) ==
    /\ refined.op = "none"
    /\ Len(replies) = Len(data)
    /\ refined' = [op |-> "refine_batch", data |-> data, replies |-> replies,
                   field |-> field, operation |-> operation,
                   output |-> RefineLoop(data, replies, field, operation, <<>>, 1)]
    /\ UNCHANGED <<storeVars, writerVars, detVars, scraperVars, job, session, scroll>>

Init ==
    /\ table = <<>>
    /\ seq = 0
    /\ clock = 0
    /\ last = NoCall
    /\ writers = [w \in Writers |-> Idle]
    /\ lock = 0
    /\ work = [rows |-> <<>>, seq |-> 0]
    /\ det = NoDetector
    /\ registry = SITE_TEMPLATES
    /\ SELECTORS = DefaultSelectors
    /\ scraper = NoScraper
    /\ job = NoJob
    /\ session = NoSession
    /\ scroll = NoScroll
    /\ refined = NoRefine

\* The store on its own: batches saved, rows counted, time passing
Next ==
    \/ \E data \in Batches : \E tickAt \in 0..Len(data) : Save(data, tickAt)
    \/ CountRows
    \/ Tick

Spec == Init /\ [][Next]_vars

\* The store as get_all sees it
NextRead ==
    \/ \E data \in ReadBatches : \E tickAt \in 0..Len(data) : Save(data, tickAt)
    \/ \E limit \in Limits : \E order \in Orders(table) : GetAll(limit, order)
    \/ Tick

SpecRead == Init /\ [][NextRead]_vars

\* Two concurrent writers on an empty store
NextWriters ==
    \/ \E w \in Writers : \E data \in Batches : Begin(w, data)
    \/ \E w \in Writers : Insert(w)
    \/ \E w \in Writers : BusyTimeout(w)
    \/ \E w \in Writers : Commit(w)

SpecWriters == Init /\ [][NextWriters]_vars

\* A detector built on a page and asked for its selectors
NextDetect ==
    /\ det.op = "new"
    /\ \E url \in Urls : \E dom \in Doms : Detect(url, dom)

SpecDetect == Init /\ [][NextDetect]_vars

\* Lookups one after another on blank pages, the caller editing what each
\* one returned
NextTemplates ==
    \/ \E url \in Urls : Detect(url, BlankPage)
    \/ \E key \in SelectorKeys : Override(key)
    \/ \E key \in SelectorKeys : Delete(key)
    \/ Discard

SpecTemplates == Init /\ [][NextTemplates]_vars

\* Scrapers extracting pages with the selectors as written
NextScraper ==
    \/ NewScraper
    \/ /\ Ready
       /\ \E page \in Pages : \E max_items \in MaxItemsArgs : ExtractData(page, max_items)

SpecScraper == Init /\ [][NextScraper]_vars

\* GUI runs in one process: each builds a scraper, applies the custom
\* selectors given and extracts
NextGui ==
    \/ NewScraper
    \/ \E keys \in SUBSET SelectorKeys : ApplyCustom(keys)
    \/ \E max_items \in MaxItemsArgs : ExtractData(GuiPage, max_items)

SpecGui == Init /\ [][NextGui]_vars

\* A run of main() that may be interrupted during extraction
NextMain ==
    \/ /\ job.pc = "idle"
       /\ \E page \in Pages : \E max_items \in MaxItemsArgs : BeginExtract(page, max_items)
    \/ LoopStep
    \/ LoopEnd
    \/ Interrupt
    \/ AfterExtract

SpecMain == Init /\ [][NextMain]_vars

\* One "with WebScraper(...)" block
NextSession ==
    \/ \E browser_type \in BrowserTypeArgs : \E headless \in BOOLEAN :
          EnterWith(browser_type, headless)
    \/ Launch
    \/ LaunchRaises
    \/ StartAgain
    \/ ExitWith
    \/ CloseStep

SpecSession == Init /\ [][NextSession]_vars

\* The passes of scroll_to_bottom's loop
ScrollLoop ==
    \/ \E new_height \in Heights : ScrollStep(new_height)
    \/ EndScroll
    \/ \E scrolled \in BOOLEAN : ScrollRaises(scrolled)

\* One call of scroll_to_bottom
NextScroll ==
    \/ scroll.pc = "idle" /\ \E max_scrolls \in 0..MaxScrolls : \E height \in Heights :
          BeginScroll(max_scrolls, height)
    \/ ScrollLoop

\* One call of refine_batch
NextRefine ==
    refined.op = "none" /\
        \E n \in 0..MaxRefine : \E data \in [1..n -> RefineItems] :
            \E replies \in [1..n -> Replies] :
                \E field \in RefineFields : \E operation \in Operations :
                    RefineBatch(data, replies, field, operation)

SpecRefine == Init /\ [][NextRefine]_vars

\* The thread that called scroll_to_bottom keeps running: time.sleep and
\* page.evaluate return or raise, so a pass that can be taken is taken
SpecScroll == Init /\ [][NextScroll]_vars /\ WF_vars(ScrollLoop)
----------------------------------------------------------------------------
(* Properties of the dedup store *)

\* A step that is a call of save
SaveStep == last'.op = "save" /\ (seq' # seq \/ last' # last)

Range(f) == { f[i] : i \in DOMAIN f }

Counts(i, d, e) == [inserted |-> i, duplicates |-> d, errors |-> e]

\* Every value of every record of the batch is a string or None
Bindable(data) == \A i \in DOMAIN data : ~Unbindable(data[i])

\* The links of the batch are non-null and pairwise distinct
DistinctLinks(data) ==
    /\ \A i \in DOMAIN data : Get(data[i], "link") # NULL
    /\ \A i, j \in DOMAIN data : i # j => Get(data[i], "link") # Get(data[j], "link")

\* The stored rows are still there, unchanged and in place
RowsKept == \A i \in 1..Len(table) : i <= Len(table') /\ table'[i] = table[i]

\* C1: a batch of N >= 1 bindable records with pairwise distinct non-null
\* links saved into an empty store counts inserted = N, duplicate = 0; saving
\* the same batch again right after counts inserted = 0, duplicate = N and
\* leaves the stored rows as they were.
C1_SaveTwice ==
    [][(SaveStep /\ last'.data # <<>> /\ Bindable(last'.data)
                 /\ DistinctLinks(last'.data)) =>
        LET N == Len(last'.data) IN
          /\ table = <<>> => last'.cnt = Counts(N, 0, 0) /\ Len(table') = N
          /\ (last.op = "save" /\ last.data = last'.data
                /\ Len(table) = N /\ last.cnt = Counts(N, 0, 0))
               => last'.cnt = Counts(0, N, 0) /\ table' = table]_vars

C1_Witness ==
    /\ last.op = "save" /\ Len(last.data) = 2
    /\ Bindable(last.data) /\ DistinctLinks(last.data)
    /\ last.cnt = Counts(0, 2, 0) /\ Len(table) = 2 /\ seq = 4

\* C2: the table never holds two rows with the same non-null link.
C2_UniqueLinks ==
    \A i, j \in 1..Len(table) :
        (i # j /\ table[i].link # NULL) => table[i].link # table[j].link

\* a batch that repeats a link within itself has been saved
C2_Witness ==
    /\ last.op = "save" /\ Len(last.data) = 2 /\ Bindable(last.data)
    /\ Get(last.data[1], "link") # NULL
    /\ Get(last.data[1], "link") = Get(last.data[2], "link")
    /\ last.data[1] # last.data[2]
    /\ last.cnt = Counts(1, 1, 0)

\* The bindable records of the batch whose non-null link is stored already
\* when their insert is attempted: stored before the call, or carried by an
\* earlier bindable record of the batch
Colliding(rows, data) ==
    { i \in DOMAIN data :
        /\ ~Unbindable(data[i])
        /\ Get(data[i], "link") # NULL
        /\ \/ \E r \in Range(rows) : r.link = Get(data[i], "link")
           \/ \E j \in 1..(i - 1) : /\ ~Unbindable(data[j])
                                     /\ Get(data[j], "link") = Get(data[i], "link") }

\* C3: an insert of a (bindable) record whose link is stored already is
\* counted as a duplicate, and every stored row keeps its id, title, author,
\* date, content, link and scraped_at.
C3_FirstWriteWins ==
    [][SaveStep =>
        /\ RowsKept
        /\ last'.data # <<>> =>
              last'.cnt.duplicates = Cardinality(Colliding(table, last'.data))]_vars

\* a record with other field values and a later timestamp met a stored link
C3_Witness ==
    /\ last.op = "save" /\ last.cnt.duplicates = 1 /\ Len(last.data) = 1
    /\ clock > 0
    /\ \E r \in Range(table) :
          /\ r.link = Get(last.data[1], "link")
          /\ r.title # Get(last.data[1], "title")
          /\ r.scraped_at < clock

\* C4 as claimed: save returns the counts of inserted, duplicate and errored
\* records to its caller, for every batch, the empty one included.
C4_ReturnsCounts ==
    last.op = "save" =>
        last.ret = <<last.cnt.inserted, last.cnt.duplicates, last.cnt.errors>>

\* C4 as amended: save returns nothing (None) for every batch; for a
\* non-empty batch it computes the three counts, which add up to the batch
\* length, and only logs them; for the empty batch it returns before the
\* counters exist.
C4_CountsOnlyLogged ==
    last.op = "save" =>
        /\ last.ret = <<>>
        /\ last.counted <=> last.data # <<>>
        /\ last.counted =>
              last.cnt.inserted + last.cnt.duplicates + last.cnt.errors
                  = Len(last.data)

C4_Witness ==
    /\ last.op = "save" /\ last.counted
    /\ last.cnt = Counts(1, 0, 1)

NumLinkless(rows) == Cardinality({ i \in 1..Len(rows) : rows[i].link = NULL })

\* The bindable records of the batch with a null or absent link
Linkless(data) ==
    { i \in DOMAIN data : ~Unbindable(data[i]) /\ Get(data[i], "link") = NULL }

\* C5: every (bindable) record with a null or absent link is inserted, never
\* counted as a duplicate: a save of a batch with k of them leaves k more
\* linkless rows, counts at least k inserts, and counts no duplicate beyond
\* the records that carry a link.
C5_LinklessInserted ==
    [][SaveStep =>
        LET k == Cardinality(Linkless(last'.data)) IN
          /\ NumLinkless(table') = NumLinkless(table) + k
          /\ last'.cnt.inserted >= k
          /\ last'.cnt.duplicates + last'.cnt.errors <= Len(last'.data) - k]_vars

\* linkless records saved in one batch and across calls
C5_Witness ==
    /\ last.op = "save" /\ Cardinality(Linkless(last.data)) = 2
    /\ last.cnt = Counts(2, 0, 0)
    /\ NumLinkless(table) = 4

\* C6: when the insert of a record raises an error that is not a constraint
\* violation, the record is counted as errored, the call completes with the
\* counts adding up to the batch length, and every other record of the
\* batch, before or after it, is persisted.
C6_ErrorsCounted ==
    [][(SaveStep /\ ~Bindable(last'.data)) =>
        /\ last'.counted
        /\ last'.cnt.errors =
              Cardinality({ i \in DOMAIN last'.data : Unbindable(last'.data[i]) })
        /\ last'.cnt.inserted + last'.cnt.duplicates + last'.cnt.errors
              = Len(last'.data)
        /\ RowsKept
        /\ Len(table') = Len(table) + last'.cnt.inserted
        /\ \A i \in DOMAIN last'.data :
              (~Unbindable(last'.data[i]) /\ Get(last'.data[i], "link") # NULL) =>
                  \E r \in Range(table') : r.link = Get(last'.data[i], "link")
        /\ NumLinkless(table') =
              NumLinkless(table) + Cardinality(Linkless(last'.data))]_vars

\* the first record of a batch failed and the one after it was inserted
C6_Witness ==
    /\ last.op = "save" /\ Len(last.data) = 2
    /\ Unbindable(last.data[1])
    /\ last.cnt = Counts(1, 0, 1)
    /\ table[Len(table)].title = Get(last.data[2], "title")

\* C7 as claimed: get_all returns the rows newest insertion first - of any
\* two rows it returns, the one inserted later (the greater id) comes first.
C7_NewestFirst ==
    last.op = "get_all" =>
        \A i, j \in 1..Len(last.rows) :
            last.rows[i].id > last.rows[j].id => i < j

\* C8 as claimed: when two concurrent writers have both finished, every link
\* their batches share is stored in exactly one row, and the record carrying
\* it was counted as inserted by one writer and as a duplicate, not as an
\* error, by the other.
C8_SharedCountedOnce ==
    (/\ \A w \in Writers : writers[w].pc = "done"
     /\ \A w \in Writers : Bindable(writers[w].data) /\ DistinctLinks(writers[w].data))
    => \A i \in DOMAIN writers[1].data : \A j \in DOMAIN writers[2].data :
          Get(writers[1].data[i], "link") = Get(writers[2].data[j], "link") =>
            /\ Cardinality({ k \in 1..Len(table) :
                               table[k].link = Get(writers[1].data[i], "link") }) = 1
            /\ {writers[1].out[i], writers[2].out[j]} = {"inserted", "ignored"}

\* C25 as claimed: get_all with an integer limit L >= 0, 0 included,
\* returns at most L rows, the first L of what it returns without a limit;
\* only without a limit does it return all rows.
C25_LimitCaps ==
    (last.op = "get_all" /\ last.limit # <<>>) =>
        Len(last.rows) = IF last.limit[1] < Len(table) THEN last.limit[1] ELSE Len(table)

\* C26: a save of a non-empty batch ends with inserted + duplicates +
\* errors equal to the number of records given, and with count() greater
\* by exactly the inserted counter.
C26_CountersPartition ==
    [][(SaveStep /\ last'.data # <<>>) =>
        /\ last'.cnt.inserted + last'.cnt.duplicates + last'.cnt.errors
              = Len(last'.data)
        /\ Len(table') = Len(table) + last'.cnt.inserted]_vars

\* a batch of a duplicate and a record that cannot be bound, saved into a
\* store of one row: no insert, and still one row
C26_Witness ==
    /\ last.op = "save" /\ Len(last.data) = 2
    /\ last.cnt = Counts(0, 1, 1)
    /\ Len(table) = 1 /\ seq = 2

----------------------------------------------------------------------------
(* Properties of the selector resolver *)

\* The template registered under a key
TemplateOf(k) ==
    SITE_TEMPLATES[CHOOSE i \in 1..Len(SITE_TEMPLATES) : SITE_TEMPLATES[i].key = k].tpl

\* C9 as claimed: when the host of the page URL is a registered key, with or
\* without a leading www., detect returns exactly the selector set registered
\* under that key and queries the page for no candidate.
C9_RegisteredExact ==
    \A k \in RegisteredKeys :
        (det.op = "detect" /\ det.url.host \in {k, Www \o k}) =>
            /\ ~det.raised
            /\ det.selectors = TemplateOf(k)
            /\ det.probes = <<>>

\* C11: whatever the page URL and whatever the page answers to the probes,
\* the selector set detect returns has a container selector and a link
\* selector, and neither is the empty string.
C11_ContainerAndLink ==
    (det.op = "detect" /\ ~det.raised) =>
        /\ {"container", "link"} \subseteq DOMAIN det.selectors
        /\ det.selectors.container # ""
        /\ det.selectors.link # ""

\* an unregistered domain on a page where every candidate matches nothing
C11_Witness ==
    /\ det.op = "detect" /\ det.key = <<>> /\ ~det.raised
    /\ det.page = BlankPage
    /\ Len(det.probes) = Cardinality(Candidates)
    /\ det.selectors.container = ContainerFallback
    /\ det.selectors.link = "a[href]"

\* C12 as claimed: a query that fails on any candidate of any field counts
\* as zero matches, so detect never raises and always returns a selector set.
C12_ProbeFailureTolerated ==
    det.op = "detect" =>
        /\ ~det.raised
        /\ DOMAIN det.selectors # {}

\* The container candidates in the order they are tried
ContainerOrder == SemanticTags \o CommonClasses

\* The places in that order whose candidate matches 3 to 100 elements
InBand(page) ==
    { i \in 1..Len(ContainerOrder) :
        /\ ~page[ContainerOrder[i]].throws
        /\ 3 <= page[ContainerOrder[i]].n
        /\ page[ContainerOrder[i]].n <= 100 }

\* C13: the container selector found by the heuristic is the first
\* candidate, semantic tags before class patterns, whose match count is
\* within 3..100, and the fixed fallback alternation when there is none.
C13_FirstInBand ==
    (det.op = "detect" /\ det.key = <<>> /\ ~det.raised) =>
        det.selectors.container =
            IF InBand(det.page) = {}
            THEN "article, .post, .card, .item, .entry, section[class*=\"post\"]"
            ELSE ContainerOrder[CHOOSE i \in InBand(det.page) :
                                  \A j \in InBand(det.page) : i <= j]

\* article matches 101 elements, .card 2 and nothing else is in range but
\* .item: .item is chosen
C13_Witness ==
    /\ det.op = "detect" /\ det.key = <<>> /\ ~det.raised
    /\ det.page["article"] = [throws |-> FALSE, n |-> 101]
    /\ det.page[".item"] = [throws |-> FALSE, n |-> 3]
    /\ det.selectors.container = ".item"

\* C14: the dict a template lookup returns is a copy - whatever fields the
\* caller overrides or deletes on it, the registry keeps the values it was
\* written with and every lookup returns the registered template.
C14_RegistryIntact ==
    /\ registry = SITE_TEMPLATES
    /\ (det.op = "detect" /\ det.key # <<>>) => det.selectors = TemplateOf(det.key)

\* the caller has overridden one field and deleted another on a returned
\* template
C14_Witness ==
    /\ det.op = "edited" /\ det.key = K_medium_com
    /\ DOMAIN det.selectors = DOMAIN TemplateOf(K_medium_com) \ {"link"}
    /\ det.selectors.title = CustomValue
    /\ det.selectors.container = TemplateOf(K_medium_com).container
    /\ registry = SITE_TEMPLATES

\* C10 as claimed: for every registered key R, a host <label>.R that is no
\* key itself gets the template registered for R.
C10_SubdomainOfEveryKey ==
    \A k \in RegisteredKeys :
        (/\ det.op = "detect"
         /\ det.url.host = Blog \o k
         /\ det.url.port = <<>>
         /\ det.url.host \notin RegisteredKeys) =>
            /\ ~det.raised
            /\ det.selectors = TemplateOf(k)

\* C21 as claimed: every selector set detect returns, from a template or
\* from the heuristic, has all six fields container, title, author, date,
\* content and link.
C21_AllSixFields ==
    (det.op = "detect" /\ ~det.raised) =>
        DOMAIN det.selectors = {"container", "title", "author", "date", "content", "link"}

\* C23: a domain that is itself a registered key gets its own template,
\* also when another key that is a substring of it comes earlier in the
\* registry.
C23_ExactFirst ==
    (det.op = "detect" /\ det.domain \in RegisteredKeys) =>
        /\ det.key = det.domain
        /\ det.selectors = TemplateOf(det.domain)

\* folha.uol.com.br, which has the earlier key uol.com.br as a substring,
\* got its own template
C23_Witness ==
    /\ det.op = "detect"
    /\ det.domain = K_folha_uol_com_br
    /\ IsSubstring(K_uol_com_br, det.domain)
    /\ det.key = K_folha_uol_com_br
    /\ det.selectors.link = ".c-headline__url"

EndsWith(s, suffix) ==
    Len(s) >= Len(suffix) /\ SubSeq(s, Len(s) - Len(suffix) + 1, Len(s)) = suffix

\* C29 as claimed: a template found by partial match belongs to a key of
\* which the queried domain is a subdomain - the domain ends with "."
\* followed by the key.
C29_PartialOnlySubdomain ==
    (det.op = "detect" /\ det.key # <<>> /\ det.domain # det.key) =>
        EndsWith(det.domain, <<".">> \o det.key)

----------------------------------------------------------------------------
(* Properties of the extraction pipeline *)

\* The containers the page holds for the container selector in effect
Found == scraper.page.matches[scraper.used.container]

\* Some field of the container raises when it is extracted
Fails(container) == \E i \in 1..Len(Fields) : container[Fields[i]].kind = "raise"

\* The container has a non-empty title or a link with an href that can be
\* extracted without error
OffersTitleOrLink(container) ==
    \/ container.title.kind = "value" /\ container.title.value # ""
    \/ container.link.kind = "value" /\ container.link.value # ""

\* C15: every record extract_data returns has a non-empty title or a
\* non-empty link, whatever author, date or content it has.
C15_TitleOrLink ==
    scraper.op = "extract" =>
        \A k \in 1..Len(scraper.data) :
            \/ "title" \in DOMAIN scraper.data[k] /\ scraper.data[k].title \notin {"", NULL}
            \/ "link" \in DOMAIN scraper.data[k] /\ scraper.data[k].link \notin {"", NULL}

\* a container with author, date and content and neither title nor link was
\* passed over, as was one with a blank title, and the one after them kept
C15_Witness ==
    /\ scraper.op = "extract" /\ Len(scraper.containers) = 3
    /\ scraper.containers[1].title = Missing /\ scraper.containers[1].link = Missing
    /\ scraper.containers[1].author = Yields("A")
    /\ scraper.containers[2].title = Yields("") /\ scraper.containers[2].content = Yields("X")
    /\ scraper.kept = <<3>>
    /\ Len(scraper.data) = 1

\* C16 as claimed: with max_items an integer m >= 0, 0 included, on a page
\* of n containers extract_data goes through the first min(m, n) containers
\* and returns at most m records.
C16_MaxItemsCaps ==
    (scraper.op = "extract" /\ scraper.max_items # <<>> /\ ~scraper.page.throws) =>
        LET m == scraper.max_items[1]
            n == Len(Found)
        IN  /\ scraper.containers = SubSeq(Found, 1, IF m < n THEN m ELSE n)
            /\ Len(scraper.data) <= m

\* C17 as claimed: a container of which one field raises still yields a
\* record of the fields that can be extracted, when these include a
\* non-empty title or link.
C17_PartialRecord ==
    scraper.op = "extract" =>
        \A i \in 1..Len(scraper.containers) :
            (Fails(scraper.containers[i]) /\ OffersTitleOrLink(scraper.containers[i]))
                => \E k \in 1..Len(scraper.kept) : scraper.kept[k] = i

\* C18: a failure while a container is processed does not end the batch -
\* extract_data returns, and every container that extracts without error
\* and has a non-empty title or link has its record in the result.
C18_FailureNotFatal ==
    scraper.op = "extract" =>
        /\ ~scraper.raised
        /\ ~scraper.page.throws => scraper.containers = Truncate(Found, scraper.max_items)
        /\ \A j \in 1..Len(scraper.containers) :
              (~Fails(scraper.containers[j]) /\ OffersTitleOrLink(scraper.containers[j])) =>
                  \E k \in 1..Len(scraper.kept) :
                      /\ scraper.kept[k] = j
                      /\ scraper.data[k] = ExtractItemData(scraper.containers[j], NoFields, 1).item

\* the second of three containers failed; the first and the third are in
\* the result
C18_Witness ==
    /\ scraper.op = "extract" /\ Len(scraper.containers) = 3
    /\ ~Fails(scraper.containers[1]) /\ Fails(scraper.containers[2])
    /\ ~Fails(scraper.containers[3])
    /\ scraper.kept = <<1, 3>>
    /\ Len(scraper.data) = 2

\* C19: the records come in the document order of their containers - the
\* result is the list of containers gone through, less those that failed or
\* were rejected, each giving one record, none moved and none repeated.
C19_DocumentOrder ==
    scraper.op = "extract" =>
        /\ Len(scraper.kept) = Len(scraper.data)
        /\ \A k \in 1..Len(scraper.kept) :
              /\ scraper.kept[k] \in 1..Len(scraper.containers)
              /\ k > 1 => scraper.kept[k - 1] < scraper.kept[k]
              /\ scraper.data[k] =
                    ExtractItemData(scraper.containers[scraper.kept[k]], NoFields, 1).item
        /\ { scraper.kept[k] : k \in 1..Len(scraper.kept) } =
              { i \in 1..Len(scraper.containers) :
                  ~Fails(scraper.containers[i]) /\ OffersTitleOrLink(scraper.containers[i]) }
        /\ \E n \in 0..Len(Found) : scraper.containers = SubSeq(Found, 1, n)

\* of three containers cut to two by max_items, both kept, with different
\* records, in page order
C19_Witness ==
    /\ scraper.op = "extract" /\ Len(Found) = 3 /\ scraper.max_items = <<2>>
    /\ scraper.kept = <<1, 2>>
    /\ scraper.data[1] # scraper.data[2]
    /\ "author" \in DOMAIN scraper.data[2]

\* C20 as claimed: a scraper created after a run with custom selectors, and
\* given none itself, extracts with the selector set as written in the class.
C20_FreshScraperDefaults ==
    (scraper.op = "extract" /\ scraper.custom = {}) =>
        scraper.used = DefaultSelectors

\* C22 as claimed: when extraction is interrupted during the container
\* loop, the records extracted from the earlier containers are handed to
\* the caller, which holds them and can persist them.
C22_PartialHandedBack ==
    job.pc = "cancelled" => job.held = job.data

\* C24: the date of a record is the datetime attribute of the element the
\* date selector matched when the attribute is there and not empty, the
\* element's trimmed text otherwise; a container without such an element
\* gives a record without a date key.
C24_DatetimeFirst ==
    scraper.op = "extract" =>
        \A k \in 1..Len(scraper.kept) :
            LET el == scraper.containers[scraper.kept[k]].date
                record == scraper.data[k]
            IN  /\ el.kind = "none" => "date" \notin DOMAIN record
                /\ el.kind = "value" =>
                      /\ "date" \in DOMAIN record
                      /\ el.datetime \notin {NULL, ""} => record.date = el.datetime
                      /\ el.datetime \in {NULL, ""} =>
                            record.date = (CASE el.value = " D " -> "D"
                                             [] el.value = "  " -> ""
                                             [] OTHER -> el.value)

\* three records: a date with attribute and text, a date with an empty
\* attribute and a text, and no date element
C24_Witness ==
    /\ scraper.op = "extract" /\ scraper.kept = <<1, 2, 3>>
    /\ scraper.containers[1].date = DateEl("2024-01-01", " D ")
    /\ scraper.data[1].date = "2024-01-01"
    /\ scraper.containers[2].date = DateEl("", " D ")
    /\ scraper.data[2].date = "D"
    /\ scraper.containers[3].date = Missing
    /\ "date" \notin DOMAIN scraper.data[3]

\* C27 as claimed: when a with block in which start() was called again has
\* been left, every Playwright driver, browser, context and page launched
\* in it has been closed.
C27_AllClosed ==
    (session.pc = "exited" /\ session.starts >= 2) =>
        session.launched \subseteq session.closed

\* The measured heights of a call that is still looping differ from one
\* measurement to the next; an unchanged height is the last one measured
StopsAtFirstUnchanged ==
    \A i \in 1..(Len(scroll.heights) - 1) :
        scroll.heights[i] = scroll.heights[i + 1] =>
            i = Len(scroll.heights) - 1 /\ scroll.pc = "done"

\* C28: scroll_to_bottom terminates for every sequence of page heights,
\* also when the height grows on every scroll: it makes at most max_scrolls
\* scroll actions and stops at the first scroll that leaves the height
\* unchanged.
C28_ScrollTerminates ==
    /\ [](scroll.actions <= scroll.max_scrolls /\ StopsAtFirstUnchanged)
    /\ (scroll.pc = "loop" ~> scroll.pc \in {"done", "raised"})

\* A page that grew on every scroll: the call ended after max_scrolls
\* scroll actions
C28_Witness ==
    /\ scroll.pc = "done"
    /\ scroll.max_scrolls = MaxScrolls
    /\ scroll.actions = scroll.max_scrolls
    /\ \A i \in 1..(Len(scroll.heights) - 1) : scroll.heights[i] < scroll.heights[i + 1]

\* The keys refine_batch may add for a field
DerivedKeys(field) ==
    {field \o "_summary", field \o "_cleaned", field \o "_key_points"}

\* C30: refine_batch returns one item per input item, in input order,
\* whatever fields are empty and whichever refinements fail; every value an
\* item had is unchanged and the only key added is <field>_summary,
\* <field>_cleaned or <field>_key_points.
C30_OnePerItem ==
    refined.op = "refine_batch" =>
        /\ Len(refined.output) = Len(refined.data)
        /\ \A i \in 1..Len(refined.data) :
              /\ i <= Len(refined.output)
              /\ DOMAIN refined.data[i] \subseteq DOMAIN refined.output[i]
              /\ \A k \in DOMAIN refined.data[i] :
                    refined.output[i][k] = refined.data[i][k]
              /\ Cardinality(DOMAIN refined.output[i] \ DOMAIN refined.data[i]) <= 1
              /\ DOMAIN refined.output[i] \ DOMAIN refined.data[i]
                    \subseteq DerivedKeys(refined.field)

\* A batch with an empty field, then an item whose refinement raised out
\* of extract_key_points: both came back as they were
C30_Witness ==
    /\ refined.op = "refine_batch"
    /\ refined.operation = "extract_points"
    /\ refined.field = "content"
    /\ Len(refined.data) = 2
    /\ "content" \in DOMAIN refined.data[1] /\ refined.data[1].content = ""
    /\ "content" \in DOMAIN refined.data[2] /\ refined.data[2].content = NonStr
    /\ ~refined.replies[2].ok
    /\ refined.output = refined.data
====
